---- MODULE Spec2Model ----
(***************************************************************************)
(* A model of trello_report/reporter.py: one run of main(), which looks up *)
(* a board and two of its lists, orders the board's labels                 *)
(* (get_board_labels), splits every list's cards into updated and stale    *)
(* ones (get_cards) and prints them grouped by label.                      *)
(*                                                                         *)
(* Python's None is the empty sequence and a present value x is <<x>>.     *)
(* Time is counted in days.  The iteration order of a Python set is not    *)
(* fixed by the language, so every loop over a set may run in any order.   *)
(***************************************************************************)
EXTENDS Integers, Sequences, FiniteSets

VARIABLES
    pc,            \* the position of main()
    boards,        \* names of the boards api.list_boards() returns
    open_lists,    \* names of the lists board.open_lists() returns
    board_labels,  \* names of the labels board.get_labels() returns
    list_cards,    \* list name -> the cards l.list_cards() returns
    top_labels,    \* main's top_labels (parsed from the configuration)
    end_labels,    \* main's end_labels (parsed from the configuration)
    days,          \* the --days option
    labels,        \* main's labels
    since,         \* main's since
    l_i,           \* which of (in_progress_list, done_list) the loop is at
    label_i,       \* which label of labels the inner loop is at
    cards,         \* main's cards
    not_updated,   \* main's not_updated
    out            \* what has been printed, one event per print() call

inputs == <<boards, open_lists, board_labels, list_cards, top_labels,
            end_labels, days>>
vars == <<pc, boards, open_lists, board_labels, list_cards, top_labels,
          end_labels, days, labels, since, l_i, label_i, cards, not_updated,
          out>>

----------------------------------------------------------------------------
(* Bounds of the model. *)

MaxCards == 2      \* cards on the board, over both lists
MaxTime == 1       \* timestamps are 0..MaxTime, and now is MaxTime
MaxListLen == 2    \* length of the top and bottom label lists
MaxComments == 2   \* comment events of a card

----------------------------------------------------------------------------
(* Values. *)

None == <<>>
Some(x) == <<x>>

SKIP_LABEL == "Skip-for-report"

Now == MaxTime

\* config_info['board'], config_info['in_progress_list'], config_info['done_list']
BoardName == "Team"
InProgressName == "In Progress"
DoneName == "Done"
ListNames == <<InProgressName, DoneName>>

SeqUpTo(S, n) == UNION {[1..k -> S] : k \in 0..n}

Range(s) == {s[i] : i \in 1..Len(s)}

\* Every order in which a loop over the set S can visit its elements.
Orderings(S) ==
    {s \in [1..Cardinality(S) -> S] :
        \A i, j \in 1..Cardinality(S) : i # j => s[i] # s[j]}

----------------------------------------------------------------------------
(* CardData *)

\* CardData.__init__ keeping the comments dated at updates_since as well.
CardData_at_or_after(card, updates_since) ==
    [name |-> card.name,
     labels |-> card.labels,
     date_last_activity |-> card.date_last_activity,
     _comments |-> SelectSeq(card.comments,
                     LAMBDA c : updates_since = None \/ c.date >= updates_since[1])]

\* CardData.__init__: the comments are cut down to those after updates_since.
CardData(card, updates_since) ==
    [name |-> card.name,
     labels |-> card.labels,
     date_last_activity |-> card.date_last_activity,
     _comments |-> SelectSeq(card.comments,
                     LAMBDA c : updates_since = None \/ c.date > updates_since[1])]

\* CardData.comments
RECURSIVE comments_of(_)
comments_of(cs) ==
    IF cs = <<>> THEN <<>>
    ELSE LET c == Head(cs)
         IN  IF c.type = "commentCard" /\ c.has_data /\ c.has_text
             THEN <<c.text>> \o comments_of(Tail(cs))
             ELSE comments_of(Tail(cs))

comments(card) == comments_of(card._comments)

\* CardData.updated_since with >= for >.
updated_since_or_at(card, timestamp) ==
    timestamp = None \/ card.date_last_activity >= timestamp[1]

\* CardData.updated_since
updated_since(card, timestamp) ==
    timestamp = None \/ card.date_last_activity > timestamp[1]

\* CardData.__str__, as far as the name and the comment list go.
Str(card) == [kind |-> "card", name |-> card.name, comments |-> comments(card)]

----------------------------------------------------------------------------
(* The helpers of main *)

get_board(api_boards, name) == IF name \in api_boards THEN Some(name) ELSE None

\* get_list returning a list without looking whether there is one.
get_list_unchecked(lists, name) == Some(name)

get_list(lists, name) == IF name \in lists THEN Some(name) ELSE None

\* The first loop of get_board_labels without its labels.remove(label).
RECURSIVE top_loop_no_remove(_, _, _)
top_loop_no_remove(top, res, ls) ==
    IF top = <<>> THEN [res |-> res, labels |-> ls]
    ELSE IF Head(top) \in ls
         THEN top_loop_no_remove(Tail(top), Append(res, Head(top)), ls)
         ELSE top_loop_no_remove(Tail(top), res, ls)

\* get_board_labels, first loop: the top labels that are on the board.
RECURSIVE top_loop(_, _, _)
top_loop(top, res, ls) ==
    IF top = <<>> THEN [res |-> res, labels |-> ls]
    ELSE IF Head(top) \in ls
         THEN top_loop(Tail(top), Append(res, Head(top)), ls \ {Head(top)})
         ELSE top_loop(Tail(top), res, ls)

\* get_board_labels: every sequence it can return.  Its second loop and the
\* final list(labels) run over a set, in any order.
get_board_labels(b_labels, top, bottom) ==
    LET ls == {n \in b_labels : n # SKIP_LABEL}
        t == top_loop(top, <<>>, ls)
        middle == {n \in t.labels : n \notin Range(bottom)}
        rest == t.labels \ middle
    IN  {t.res \o m \o r : m \in Orderings(middle), r \in Orderings(rest)}

\* get_cards without its test of the skip label.
skipped_never(card) == FALSE

\* get_cards: the test that leaves a card out of both pools.
skipped(card) == SKIP_LABEL \in card.labels

\* get_cards adding every card to updated_cards, the stale ones too.
updated_pool_all(kept, updated_since_) == kept

\* get_cards: the cards added to updated_cards.
updated_pool(kept, updated_since_) ==
    {c \in kept : updated_since(c, updated_since_)}

\* get_cards
get_cards(cs, updated_since_) ==
    LET data == {CardData(c, updated_since_) : c \in cs}
        kept == {c \in data : ~skipped(c)}
    IN  [updated |-> updated_pool(kept, updated_since_),
         stale |-> {c \in kept : ~updated_since(c, updated_since_)}]

get_cards_by_label(cs, label) == {c \in cs : label \in c.labels}

\* main, lines 252-253
compute_since(d) == IF d # None /\ d[1] # 0 THEN Some(Now - d[1]) ELSE None

Header(kind, name) == [kind |-> kind, name |-> name, comments |-> <<>>]

\* a loop printing the cards of a set
PrintCards(order) == [i \in 1..Len(order) |-> Str(order[i])]

----------------------------------------------------------------------------
(* main *)

GetBoard ==
    /\ pc = "get_board"
    /\ pc' = IF get_board(boards, BoardName) = None
             THEN "aborted" ELSE "get_in_progress_list"
    /\ UNCHANGED <<inputs, labels, since, l_i, label_i, cards, not_updated, out>>

GetInProgressList ==
    /\ pc = "get_in_progress_list"
    /\ pc' = IF get_list(open_lists, InProgressName) = None
             THEN "aborted" ELSE "get_done_list"
    /\ UNCHANGED <<inputs, labels, since, l_i, label_i, cards, not_updated, out>>

GetDoneList ==
    /\ pc = "get_done_list"
    /\ pc' = IF get_list(open_lists, DoneName) = None
             THEN "aborted" ELSE "print_report_header"
    /\ UNCHANGED <<inputs, labels, since, l_i, label_i, cards, not_updated, out>>

PrintReportHeader ==
    /\ pc = "print_report_header"
    /\ out' = out \o <<Header("report_header", "generated on"),
                       Header("report_header", "generated by")>>
    /\ pc' = "get_board_labels"
    /\ UNCHANGED <<inputs, labels, since, l_i, label_i, cards, not_updated>>

GetBoardLabels ==
    /\ pc = "get_board_labels"
    /\ \E res \in get_board_labels(board_labels, top_labels, end_labels) :
           labels' = res
    /\ pc' = "compute_since"
    /\ UNCHANGED <<inputs, since, l_i, label_i, cards, not_updated, out>>

ComputeSince ==
    /\ pc = "compute_since"
    /\ since' = compute_since(days)
    /\ l_i' = 1
    /\ pc' = "print_list_header"
    /\ UNCHANGED <<inputs, labels, label_i, cards, not_updated, out>>

PrintListHeader ==
    /\ pc = "print_list_header"
    /\ out' = Append(out, Header("list_header", ListNames[l_i]))
    /\ pc' = "get_cards"
    /\ UNCHANGED <<inputs, labels, since, l_i, label_i, cards, not_updated>>

GetCards ==
    /\ pc = "get_cards"
    /\ LET r == get_cards(list_cards[ListNames[l_i]], since)
       IN  /\ cards' = r.updated
           /\ not_updated' = r.stale
    /\ label_i' = 1
    /\ pc' = "label_loop"
    /\ UNCHANGED <<inputs, labels, since, l_i, out>>

\* the loop over labeled_cards without its cards.remove(card)
remove_nothing(cs, labeled_cards) == cs

\* what the loop over labeled_cards leaves of cards
remove_printed(cs, labeled_cards) == cs \ labeled_cards

\* the label header printed without the test of labeled_cards
prints_label_header_always(labeled_cards) == TRUE

\* whether the header of a label's subsection is printed
prints_label_header(labeled_cards) == labeled_cards # {}

LabelLoop ==
    /\ pc = "label_loop"
    /\ IF label_i > Len(labels)
       THEN /\ pc' = "print_other"
            /\ UNCHANGED <<label_i, cards, out>>
       ELSE LET label == labels[label_i]
                labeled_cards == get_cards_by_label(cards, label)
            IN  /\ \E order \in Orderings(labeled_cards) :
                       out' = out
                              \o (IF prints_label_header(labeled_cards)
                                  THEN <<Header("label_header", label)>>
                                  ELSE <<>>)
                              \o PrintCards(order)
                /\ cards' = remove_printed(cards, labeled_cards)
                /\ label_i' = label_i + 1
                /\ pc' = "label_loop"
    /\ UNCHANGED <<inputs, labels, since, l_i, not_updated>>

PrintOther ==
    /\ pc = "print_other"
    /\ \E order \in Orderings(cards) :
           out' = out
                  \o (IF cards # {} THEN <<Header("label_header", "Other")>>
                      ELSE <<>>)
                  \o PrintCards(order)
    /\ pc' = "print_not_updated"
    /\ UNCHANGED <<inputs, labels, since, l_i, label_i, cards, not_updated>>

PrintNotUpdated ==
    /\ pc = "print_not_updated"
    /\ \E order \in Orderings(not_updated) :
           out' = out
                  \o (IF not_updated # {}
                      THEN <<Header("label_header", "Not updated")>>
                      ELSE <<>>)
                  \o PrintCards(order)
    /\ IF l_i < Len(ListNames)
       THEN /\ l_i' = l_i + 1
            /\ pc' = "print_list_header"
       ELSE /\ l_i' = l_i
            /\ pc' = "done"
    /\ UNCHANGED <<inputs, labels, since, label_i, cards, not_updated>>

Next ==
    \/ GetBoard
    \/ GetInProgressList
    \/ GetDoneList
    \/ PrintReportHeader
    \/ GetBoardLabels
    \/ ComputeSince
    \/ PrintListHeader
    \/ GetCards
    \/ LabelLoop
    \/ PrintOther
    \/ PrintNotUpdated

----------------------------------------------------------------------------
(* Initial states *)

\* the state main() starts in, whatever the board holds
Start ==
    /\ pc = "get_board"
    /\ labels = <<>>
    /\ since = None
    /\ l_i = 1
    /\ label_i = 1
    /\ cards = {}
    /\ not_updated = {}
    /\ out = <<>>

CardNames == <<"c1", "c2", "c3", "c4", "c5">>
CommentTexts == <<"t1", "t2", "t3", "t4", "t5">>

\* --days: not given, or a number of days back to the oldest timestamp
DaysOpts == {None} \cup {Some(n) : n \in 0..MaxTime}

\* The label sets a card is given, in a fixed order.
CardLabelSets ==
    <<{}, {"A"}, {"B"}, {"A", "B"}, {SKIP_LABEL}, {"A", SKIP_LABEL}>>

CardKinds == (1..Len(CardLabelSets)) \X (0..MaxTime)

Rank(kind) == kind[2] * Len(CardLabelSets) + kind[1]

\* The comment events card.get_comments() can return: the i-th has the i-th
\* text, and an event without 'data' has no 'text' in it.
CommentEvents(i) ==
    {[type |-> t, date |-> d, has_data |-> hd[1], has_text |-> hd[2],
      text |-> CommentTexts[i]] :
        t \in {"commentCard", "updateCard"}, d \in 0..MaxTime,
        hd \in {<<FALSE, FALSE>>, <<TRUE, FALSE>>, <<TRUE, TRUE>>}}

CommentLists ==
    UNION {{cs \in [1..k -> UNION {CommentEvents(i) : i \in 1..k}] :
               \A i \in 1..k : cs[i] \in CommentEvents(i)} :
           k \in 0..MaxComments}

Card(i, kind, cs) ==
    [name |-> CardNames[i], labels |-> CardLabelSets[kind[1]],
     date_last_activity |-> kind[2], comments |-> cs]

\* n cards, the first k on the in-progress list and the others on the done
\* list.  Cards of one list are interchangeable, so they are taken in the
\* order of their kinds.
Boards(maxn) ==
    UNION {UNION {
        {[ll \in {InProgressName, DoneName} |->
            {Card(i, f[i], <<>>) :
                i \in IF ll = InProgressName THEN 1..k ELSE (k + 1)..n}] :
            f \in {g \in [1..n -> CardKinds] :
                     \A i \in 1..(n - 1) : i # k => Rank(g[i]) <= Rank(g[i + 1])}} :
        k \in 0..n} : n \in 0..maxn}

\* main() on boards that differ in their cards, in --days and in the label
\* configured to come first; a run whose board or list is missing is tried
\* with at most one card.
Init ==
    /\ Start
    /\ boards \in SUBSET {BoardName}
    /\ open_lists \in SUBSET {InProgressName, DoneName}
    /\ board_labels = {"A", "B", SKIP_LABEL}
    /\ top_labels \in {<<"B">>, <<"A">>}
    /\ end_labels = <<"C">>
    /\ days \in DaysOpts
    /\ list_cards \in
         IF boards = {BoardName} /\ open_lists = {InProgressName, DoneName}
         THEN Boards(MaxCards) ELSE Boards(1)

Spec == Init /\ [][Next]_vars

\* main() on boards that differ in their labels and in the configured top and
\* bottom labels.
LabelLists == SeqUpTo({"A", "B", "C"}, MaxListLen) \cup {<<SKIP_LABEL>>}

InitLabels ==
    /\ Start
    /\ boards = {BoardName}
    /\ open_lists = {InProgressName, DoneName}
    /\ board_labels \in SUBSET {"A", "B", "C", SKIP_LABEL}
    /\ top_labels \in LabelLists
    /\ end_labels \in LabelLists
    /\ days = None
    /\ list_cards = [ll \in {InProgressName, DoneName} |->
                       IF ll = InProgressName
                       THEN {Card(1, <<2, Now>>, <<>>)}
                       ELSE {Card(2, <<1, Now>>, <<>>)}]

SpecLabels == InitLabels /\ [][Next]_vars

\* main() on a board of one card, whose comment events differ.
InitComments ==
    /\ Start
    /\ boards = {BoardName}
    /\ open_lists = {InProgressName, DoneName}
    /\ board_labels = {"A", "B", SKIP_LABEL}
    /\ top_labels = <<"B">>
    /\ end_labels = <<"C">>
    /\ days \in DaysOpts
    /\ \E cs \in CommentLists, t \in {0, MaxTime} :
         list_cards = [ll \in {InProgressName, DoneName} |->
                         IF ll = InProgressName
                         THEN {Card(1, <<2, t>>, cs)}
                         ELSE {}]

SpecComments == InitComments /\ [][Next]_vars

----------------------------------------------------------------------------
(* Reading the report back from what was printed *)

AllCards == list_cards[InProgressName] \cup list_cards[DoneName]

CardByName(n) == CHOOSE c \in AllCards : c.name = n

CardEvents == {i \in 1..Len(out) : out[i].kind = "card"}

LabelHeaders == {i \in 1..Len(out) : out[i].kind = "label_header"}

\* the last event of a kind at or before event i, 0 if there is none
LastOf(i, kind) ==
    LET S == {j \in 1..i : out[j].kind = kind}
    IN  IF S = {} THEN 0 ELSE CHOOSE j \in S : \A k \in S : k <= j

\* the list whose section event i is in, "" before the first list header
ListAt(i) ==
    IF LastOf(i, "list_header") = 0 THEN ""
    ELSE out[LastOf(i, "list_header")].name

\* the subsection event i is in, "" before the section's first label header
SubAt(i) ==
    IF LastOf(i, "label_header") > LastOf(i, "list_header")
    THEN out[LastOf(i, "label_header")].name
    ELSE ""

\* the names of the cards printed in subsection sub of list ll's section
Printed(ll, sub) ==
    {out[i].name : i \in {j \in CardEvents : ListAt(j) = ll /\ SubAt(j) = sub}}

\* how often the card is printed in list ll's section
Times(ll, name) ==
    Cardinality({i \in CardEvents : ListAt(i) = ll /\ out[i].name = name})

\* where a label stands in labels, 0 if it is not in it
Pos(label) ==
    IF label \in Range(labels)
    THEN CHOOSE k \in 1..Len(labels) : labels[k] = label
    ELSE 0

\* the first label of labels that the card carries
FirstLabel(c) ==
    labels[CHOOSE k \in 1..Len(labels) :
              /\ labels[k] \in c.labels
              /\ \A j \in 1..(k - 1) : labels[j] \notin c.labels]

LabelsComputed ==
    pc \in {"compute_since", "print_list_header", "get_cards", "label_loop",
            "print_other", "print_not_updated", "done"}

NonSkip(b_labels) == {n \in b_labels : n # SKIP_LABEL}

\* the names of a list that are in S, each at its first place only
RECURSIVE Present(_, _)
Present(list, S) ==
    IF list = <<>> THEN <<>>
    ELSE IF Head(list) \in S
         THEN <<Head(list)>> \o Present(Tail(list), S \ {Head(list)})
         ELSE Present(Tail(list), S)

\* the card is stale under the cutoff
Stale(c, cutoff) == cutoff # None /\ c.date_last_activity <= cutoff[1]

----------------------------------------------------------------------------
(* get_board_labels (under SpecLabels) *)

\* C1: the sequence get_board_labels returns holds every board label but the
\* skip label exactly once, and nothing else.
C1_EachLabelOnce ==
    LabelsComputed =>
        /\ Range(labels) = NonSkip(board_labels)
        /\ Len(labels) = Cardinality(NonSkip(board_labels))

\* C1 on a board with the skip label, a top list that repeats a name of the
\* board, a name in both lists and a bottom name that is not on the board.
C1_Witness ==
    /\ LabelsComputed
    /\ SKIP_LABEL \in board_labels
    /\ Len(top_labels) = 2
    /\ top_labels[1] = top_labels[2]
    /\ top_labels[1] \in board_labels
    /\ top_labels[1] \in Range(end_labels)
    /\ \E n \in Range(end_labels) : n \notin board_labels
    /\ Len(labels) = 2

\* C2: the sequence is the top labels on the board in the order of the top
\* list, then the labels that are neither top nor bottom, then the bottom
\* labels on the board in the order of the bottom list.
C2_ThreeGroupsInListOrder ==
    LabelsComputed =>
        LET top == Present(top_labels, NonSkip(board_labels))
            bottom == Present(end_labels, NonSkip(board_labels) \ Range(top))
            middle == (NonSkip(board_labels) \ Range(top)) \ Range(bottom)
        IN  \E m \in Orderings(middle) : labels = top \o m \o bottom

----------------------------------------------------------------------------
(* The report (under Spec) *)

\* C3: a card that carries the skip label is never printed, in no subsection
\* of either list.
C3_SkipNeverPrinted ==
    \A i \in CardEvents : SKIP_LABEL \notin CardByName(out[i].name).labels

\* C3 where a skip card with another label is on a list next to a printed
\* card, with a cutoff and without one.
C3_Witness ==
    /\ pc = "done"
    /\ since # None
    /\ CardEvents # {}
    /\ \E c \in list_cards[InProgressName] :
           /\ c.labels = {"A", SKIP_LABEL}
           /\ Stale(c, since)

\* C4: in a list's section a card is printed under at most one label, the
\* first of its labels in labels, and it has left the pool by then.
C4_OneLabelSubsection ==
    /\ \A i \in CardEvents :
           SubAt(i) \in Range(labels) =>
               /\ SubAt(i) = FirstLabel(CardByName(out[i].name))
               /\ (ListAt(i) = ListNames[l_i] =>
                      out[i].name \notin {c.name : c \in cards})
    /\ \A c \in AllCards, ll \in Range(ListNames) :
           Cardinality({i \in CardEvents :
                           /\ out[i].name = c.name
                           /\ ListAt(i) = ll
                           /\ SubAt(i) \in Range(labels)}) <= 1

\* C4 where a card with two labels of the board was printed and the loop went
\* on to its second label.
C4_Witness ==
    /\ pc = "print_other"
    /\ \E i \in CardEvents :
           /\ CardByName(out[i].name).labels = {"A", "B"}
           /\ SubAt(i) = labels[1]
           /\ Len(labels) = 2

\* C5: after get_cards the stale pool holds the list's non-skip cards whose
\* last activity is not after the cutoff, the updated pool the other
\* non-skip cards; without a cutoff the stale pool is empty.
C5_StaleIffNotAfterCutoff ==
    (pc = "label_loop" /\ label_i = 1) =>
        LET cs == {c \in list_cards[ListNames[l_i]] : SKIP_LABEL \notin c.labels}
        IN  /\ {c.name : c \in not_updated} =
                 {c.name : c \in {d \in cs : Stale(d, since)}}
            /\ {c.name : c \in cards} =
                 {c.name : c \in {d \in cs : ~Stale(d, since)}}
            /\ (since = None => not_updated = {})

\* C5 where one card's last activity is at the cutoff and another's after it.
C5_Witness ==
    /\ pc = "label_loop"
    /\ label_i = 1
    /\ since # None
    /\ \E c \in not_updated : c.date_last_activity = since[1]
    /\ \E c \in cards : c.date_last_activity > since[1]

\* C6: whenever --days N is given, every non-skip card whose last activity is
\* not after now minus N days is printed under 'Not updated' and nowhere else.
C6_DaysAlwaysGivesStaleBucket ==
    (pc = "done" /\ days # None) =>
        \A ll \in Range(ListNames) :
            \A c \in list_cards[ll] :
                (SKIP_LABEL \notin c.labels /\ Stale(c, Some(Now - days[1]))) =>
                    /\ c.name \in Printed(ll, "Not updated")
                    /\ Times(ll, c.name) = 1

\* the board, the in-progress list or the done list is not there
LookupFails ==
    \/ BoardName \notin boards
    \/ InProgressName \notin open_lists
    \/ DoneName \notin open_lists

\* C7: a run whose board or list is not found prints nothing and stops at the
\* failed lookup; a run stops there for no other reason.
C7_AbortPrintsNothing ==
    /\ LookupFails =>
           /\ out = <<>>
           /\ pc \in {"get_board", "get_in_progress_list", "get_done_list",
                      "aborted"}
    /\ pc = "aborted" => LookupFails

\* C7 where the board and the in-progress list are found, the done list is
\* not, and the in-progress list holds a card.
C7_Witness ==
    /\ pc = "aborted"
    /\ BoardName \in boards
    /\ InProgressName \in open_lists
    /\ DoneName \notin open_lists
    /\ list_cards[InProgressName] # {}

\* C8: the in-progress section comes before the done section; in a section
\* the label subsections come in the order of labels, then 'Other', then
\* 'Not updated'; a label header is followed by a card.
C8_OutputOrder ==
    /\ \A i, j \in 1..Len(out) :
           (i < j /\ out[i].kind = "list_header" /\ out[j].kind = "list_header")
               => (out[i].name = InProgressName /\ out[j].name = DoneName)
    /\ \A i \in CardEvents :
           /\ ListAt(i) # ""
           /\ CardByName(out[i].name) \in list_cards[ListAt(i)]
           /\ SubAt(i) # ""
    /\ \A i, j \in LabelHeaders :
           (i < j /\ ListAt(i) = ListAt(j)) =>
               /\ out[i].name # "Not updated"
               /\ out[i].name = "Other" => out[j].name = "Not updated"
               /\ out[j].name \in Range(labels) =>
                      (Pos(out[i].name) > 0 /\ Pos(out[i].name) < Pos(out[j].name))
    /\ \A i \in LabelHeaders :
           /\ i < Len(out)
           /\ out[i + 1].kind = "card"
           /\ out[i].name \in Range(labels) =>
                  out[i].name \in CardByName(out[i + 1].name).labels

\* C8 where the in-progress section holds the subsections of both labels and
\* the run went on to print the done section.
C8_Witness ==
    /\ pc = "done"
    /\ \E i, j \in LabelHeaders :
           /\ i < j
           /\ ListAt(i) = InProgressName
           /\ ListAt(j) = InProgressName
           /\ out[i].name = labels[1]
           /\ out[j].name = labels[2]

\* C10: at the end every non-skip card of a list is printed exactly once in
\* the list's section; it is under 'Not updated' exactly when it is stale and
\* under 'Other' exactly when it is not stale and has no label of labels.
C10_EachCardOnce ==
    pc = "done" =>
        \A ll \in Range(ListNames) :
            \A c \in list_cards[ll] :
                SKIP_LABEL \notin c.labels =>
                    /\ Times(ll, c.name) = 1
                    /\ \A i \in CardEvents : out[i].name = c.name => ListAt(i) = ll
                    /\ c.name \in Printed(ll, "Not updated") <=> Stale(c, since)
                    /\ c.name \in Printed(ll, "Other") <=>
                           (~Stale(c, since) /\ c.labels \cap Range(labels) = {})

\* C10 where a list holds a stale card and a card without labels.
C10_Witness ==
    /\ pc = "done"
    /\ Printed(InProgressName, "Other") # {}
    /\ Printed(InProgressName, "Not updated") # {}

----------------------------------------------------------------------------
(* The comment list of a printed card (under SpecComments) *)

\* the comment events of a card that are human-authored comments with text
Shown(c) ==
    {k \in 1..Len(c.comments) :
        /\ c.comments[k].type = "commentCard"
        /\ c.comments[k].has_data
        /\ c.comments[k].has_text}

\* those of them dated after the cutoff, all of them without a cutoff
ShownSince(c, cutoff) ==
    {k \in Shown(c) : cutoff = None \/ c.comments[k].date > cutoff[1]}

\* the sequence cs is the texts of the events idx of card c, in their order
IsTextsOf(cs, c, idx) ==
    /\ Len(cs) = Cardinality(idx)
    /\ \A n \in 1..Len(cs) : \E k \in idx : cs[n] = c.comments[k].text
    /\ \A n, m \in 1..Len(cs) :
           n < m => \E k, j \in idx :
                        /\ k < j
                        /\ cs[n] = c.comments[k].text
                        /\ cs[m] = c.comments[j].text

\* C9 as amended: the comment list of a printed card is the texts, in their
\* order, of the card's commentCard events with text that, when the card was
\* read with a cutoff, are dated after the cutoff.
C9_CommentsAfterCutoff ==
    \A i \in CardEvents :
        IsTextsOf(out[i].comments, CardByName(out[i].name),
                  ShownSince(CardByName(out[i].name), since))

\* C9 as stated: the comment list is the texts of all the card's commentCard
\* events with text, whether or not a cutoff is configured.
C9_CommentsOnlyByType ==
    \A i \in CardEvents :
        IsTextsOf(out[i].comments, CardByName(out[i].name),
                  Shown(CardByName(out[i].name)))

\* C9 where a printed card has a comment after the cutoff, a comment at the
\* cutoff and an event that is no comment.
C9_Witness ==
    /\ since # None
    /\ \E i \in CardEvents :
           LET c == CardByName(out[i].name)
           IN  /\ Len(out[i].comments) = 1
               /\ Len(c.comments) = 2
               /\ \E k \in Shown(c) : c.comments[k].date = since[1]
               /\ \E k \in Shown(c) : c.comments[k].date > since[1]

====
